---- MODULE Spec2Model ----
(***************************************************************************)
(* Model of "Only Good Reads": the review endpoint GET /api/reviews        *)
(* (src/app/api/reviews/route.ts) and the browser page that drives it      *)
(* (src/app/page.tsx).                                                     *)
(*                                                                         *)
(* Encoding of JavaScript values:                                          *)
(*   - an optional string (string | null | undefined) is a TLA+ string,    *)
(*     with Null / Undefined as distinguished values; "" is the empty      *)
(*     string and is falsy like Null and Undefined;                        *)
(*   - an optional object or text is a sequence of length 0 (absent) or 1; *)
(*   - a review text, a page parameter and a script body are sequences of  *)
(*     characters or tokens, so that the regular expressions and parseInt  *)
(*     are computed, not assumed;                                          *)
(*   - a number that may be NaN is [nan |-> BOOLEAN, val |-> Int].          *)
(* Review fields no property reads (reviewer, reviewerUrl, date) are left  *)
(* out of the Review record.                                               *)
(***************************************************************************)
EXTENDS Integers, Sequences, FiniteSets, TLC

VARIABLES
    \* ---- server: the request being served by GET and what came of it
    request,      \* <<>> or <<query parameters>> of the last request
    upstream,     \* what the upstream collaborator returned to that request
    contacted,    \* which upstream collaborators GET contacted for it
    response,     \* <<>> or <<the response GET returned>>
    \* ---- client: the React state of Home()
    loading, error, data, currentUrl, bookInfo, workId, apiKey, pageTokens,
    pending,      \* <<>> or <<arguments of the fetchReviews call that is running>>
    \* ---- history of the browsing session (not program state)
    origin,       \* the user action that started the last request
    outcome,      \* "none" | "pending" | "ok" | "failed": how it ended
    pre,          \* the client state when that user action was taken
    lastNext,     \* page -> nextPageToken of the last successful fetch of it
    sessionFailed \* a request of the current session has failed

serverVars == <<request, upstream, contacted, response>>
clientVars == <<loading, error, data, currentUrl, bookInfo, workId, apiKey, pageTokens,
                pending>>
historyVars == <<origin, outcome, pre, lastNext, sessionFailed>>
vars == <<request, upstream, contacted, response,
          loading, error, data, currentUrl, bookInfo, workId, apiKey, pageTokens,
          pending, origin, outcome, pre, lastNext, sessionFailed>>

----------------------------------------------------------------------------
(* JavaScript values *)

Null == "<null>"
Undefined == "<undefined>"

\* JavaScript truthiness of an optional string
Truthy(s) == s # Null /\ s # Undefined /\ s # ""

\* a || b on optional strings
OrElse(a, b) == IF Truthy(a) THEN a ELSE b

None == <<>>
Some(x) == <<x>>

Range(s) == {s[i] : i \in DOMAIN s}

RECURSIVE SeqsUpTo(_, _)
SeqsUpTo(S, n) ==
    IF n = 0 THEN {<<>>}
    ELSE LET shorter == SeqsUpTo(S, n - 1)
         IN  shorter \cup {Append(s, x) : s \in {t \in shorter : Len(t) = n - 1}, x \in S}

----------------------------------------------------------------------------
(* Bounds of the model *)

MaxLen == 4          \* longest raw review text, in characters
MaxRating == 6       \* largest rating an upstream record carries
MaxPageLen == 2      \* longest page parameter of a direct request, in characters
MaxScriptLen == 2    \* longest inline script, in tokens
MaxPage == 4         \* last page a browsing session walks to

----------------------------------------------------------------------------
(* Text cleanup: text.replace(/<[^>]*>/g, "")  (route.ts 173, 258) *)

TextChars == {"<", ">", "a"}
Texts == SeqsUpTo(TextChars, MaxLen)

\* position of the first ">" at or after i, 0 when there is none
RECURSIVE FirstClose(_, _)
FirstClose(s, i) ==
    IF i > Len(s) THEN 0
    ELSE IF s[i] = ">" THEN i
    ELSE FirstClose(s, i + 1)

\* the global replace, scanning from position i: a match starts at a "<",
\* runs over every character that is not ">" and ends at the first ">"
RECURSIVE ReplaceTagsFrom(_, _)
ReplaceTagsFrom(s, i) ==
    IF i > Len(s) THEN <<>>
    ELSE IF s[i] = "<" /\ FirstClose(s, i + 1) # 0
         THEN ReplaceTagsFrom(s, FirstClose(s, i + 1) + 1)
         ELSE <<s[i]>> \o ReplaceTagsFrom(s, i + 1)

\* the same scan for /<[^>]+>/g, which needs a character between "<" and ">"
RECURSIVE ReplaceNonEmptyTagsFrom(_, _)
ReplaceNonEmptyTagsFrom(s, i) ==
    IF i > Len(s) THEN <<>>
    ELSE IF s[i] = "<" /\ FirstClose(s, i + 1) > i + 1
         THEN ReplaceNonEmptyTagsFrom(s, FirstClose(s, i + 1) + 1)
         ELSE <<s[i]>> \o ReplaceNonEmptyTagsFrom(s, i + 1)

stripNonEmptyTags(text) == ReplaceNonEmptyTagsFrom(text, 1)

stripAllTags(text) == ReplaceTagsFrom(text, 1)

\* text?.replace(/<[^>]*>/g, "") || ""  on an optional text
Content(optText) == IF optText = None THEN <<>> ELSE stripAllTags(optText[1])

----------------------------------------------------------------------------
(* Numbers and their decimal text: parseInt(s, 10) and `${page}` *)

DigitChars == <<"0", "1", "2", "3", "4", "5", "6", "7", "8", "9">>
IsDigit(c) == \E i \in DOMAIN DigitChars : DigitChars[i] = c
DigitVal(c) == (CHOOSE i \in DOMAIN DigitChars : DigitChars[i] = c) - 1

NaN == [nan |-> TRUE, val |-> 0]
Num(n) == [nan |-> FALSE, val |-> n]

\* value of the longest run of digits of s starting at i, given the value acc
\* of the digits already read
RECURSIVE DigitsFrom(_, _, _)
DigitsFrom(s, i, acc) ==
    IF i > Len(s) \/ ~IsDigit(s[i]) THEN acc
    ELSE DigitsFrom(s, i + 1, 10 * acc + DigitVal(s[i]))

\* parseInt(s, 10): an optional sign, then the longest prefix of digits; NaN
\* when no digit follows
parseInt(s) ==
    LET signed == Len(s) >= 1 /\ s[1] \in {"-", "+"}
        start  == IF signed THEN 2 ELSE 1
    IN  IF start > Len(s) \/ ~IsDigit(s[start]) THEN NaN
        ELSE IF signed /\ s[1] = "-" THEN Num(0 - DigitsFrom(s, start, 0))
        ELSE Num(DigitsFrom(s, start, 0))

\* decimal text of a natural number
RECURSIVE numberToString(_)
numberToString(n) ==
    IF n < 10 THEN <<DigitChars[n + 1]>>
    ELSE Append(numberToString(n \div 10), DigitChars[(n % 10) + 1])

\* strict equality page === k and the comparison page > k; both are false of NaN
NumEquals(p, k) == ~p.nan /\ p.val = k
NumGreater(p, k) == ~p.nan /\ p.val > k

\* JSON.stringify of a number writes NaN as null
JsonNumber(p) == IF p.nan THEN None ELSE Some(p.val)

\* a JSON number or null used in arithmetic: null counts as 0
NumberOf(j) == IF j = None THEN 0 ELSE j[1]

----------------------------------------------------------------------------
(* URLs: a sequence of parts, the host first *)

GoodreadsDomain == "goodreads.com"

GoodUrl == <<"goodreads.com", "book">>
SpoofUrl == <<"evil.example", "goodreads.com">>   \* another site, the name in its path
OtherUrl == <<"evil.example", "book">>
EmptyUrl == <<>>                                   \* url= with nothing after it

HostOf(url) == IF url = <<>> THEN "" ELSE url[1]

\* url.includes("goodreads.com")  (route.ts 288): the text occurs anywhere
UrlIncludes(url, text) == \E i \in DOMAIN url : url[i] = text

\* the check on the host alone
HostIs(url, text) == HostOf(url) = text

\* !bookUrl.trim()  (page.tsx 72)
IsBlank(url) == url = <<>>

----------------------------------------------------------------------------
(* The canonical shapes  (route.ts 35-48) *)

Review(rating, content) == [rating |-> rating, content |-> content]

BookInfo(title, author, coverUrl) ==
    [title |-> title, author |-> author, coverUrl |-> coverUrl]

\* Fallback API key  (route.ts 8)
FALLBACK_API_KEY == "da2-xpgsdydkbregjhpr6ejzqdhuwy"

----------------------------------------------------------------------------
(* Upstream collaborator A: the book page  (route.ts 62-196)               *)
(*                                                                         *)
(* A page is                                                               *)
(*   status   "throw" (fetch rejects), "httpError" (!response.ok),         *)
(*            "noNextData", "badJson", "noApollo", or "ok"                 *)
(*   works    the Work:kca://work/ keys of apolloState, "Work:" removed    *)
(*   book     the first Book: entity, absent or <<[title, imageUrl,        *)
(*            author]>>, author being the name the reference chain ends at *)
(*   reviews  the Review: entities, each absent or <<[rating, text]>>      *)
(*   rootQuery  "missing", "noGetReviews" or "getReviews"                  *)
(*   nextPageToken, totalCount  of the getReviews entry                    *)
(*   scripts  the bodies of the script elements, in document order         *)
(*   configKey  runtimeConfig.apiKey                                       *)
(***************************************************************************)

\* a token of a script body that /["']?(da2-[a-z0-9]+)["']?/i matches
KeyTokens == {"da2-a", "da2-b"}
ScriptTokens == KeyTokens \cup {"x"}

\* scriptContent.match(...)[1]: the first matching token of one script, or Null
RECURSIVE MatchFrom(_, _)
MatchFrom(content, i) ==
    IF i > Len(content) THEN Null
    ELSE IF content[i] \in KeyTokens THEN content[i]
    ELSE MatchFrom(content, i + 1)

\* the loop over scriptTags: the first script that matches decides, and the
\* fallback stays when none does  (route.ts 95-105)
RECURSIVE ScanScripts(_, _)
ScanScripts(scripts, i) ==
    IF i > Len(scripts) THEN FALLBACK_API_KEY
    ELSE IF MatchFrom(scripts[i], 1) # Null THEN MatchFrom(scripts[i], 1)
    ELSE ScanScripts(scripts, i + 1)

AnyScriptMatches(scripts) == \E i \in DOMAIN scripts : MatchFrom(scripts[i], 1) # Null

\* the priority script > runtime configuration > fallback
ScriptFirstApiKey(scripts, configKey) ==
    IF AnyScriptMatches(scripts) THEN ScanScripts(scripts, 1)
    ELSE IF Truthy(configKey) THEN configKey
    ELSE FALLBACK_API_KEY

\* route.ts 94-110: the scan, then runtimeConfig.apiKey overrides it when set
ExtractApiKey(scripts, configKey) ==
    IF Truthy(configKey) THEN configKey ELSE ScanScripts(scripts, 1)

\* x ?? null: only null and undefined become null
NullishToken(raw) == IF raw = Undefined THEN Null ELSE raw

\* x || null  (route.ts 189, 265): every falsy value becomes null
TokenOrNull(raw) == IF Truthy(raw) THEN raw ELSE Null

\* route.ts 123-143
ExtractBookInfo(book) ==
    IF book = None THEN BookInfo("Unknown Title", "Unknown Author", "")
    ELSE BookInfo(OrElse(book[1].title, "Unknown Title"),
                  OrElse(book[1].author, "Unknown Author"),
                  OrElse(book[1].imageUrl, ""))

\* the rating filter  (route.ts 153, 249)
IsGoodRating(rating) == rating >= 4

\* route.ts 146-176: the loop over the Review: entities, from entity i on
RECURSIVE InitialReviewsFrom(_, _)
InitialReviewsFrom(raws, i) ==
    IF i > Len(raws) THEN <<>>
    ELSE IF raws[i] # None /\ IsGoodRating(raws[i][1].rating)
         THEN <<Review(raws[i][1].rating, Content(raws[i][1].text))>>
              \o InitialReviewsFrom(raws, i + 1)
         ELSE InitialReviewsFrom(raws, i + 1)

\* fetchBookPageData past the fetch itself: <<>> for null, else <<pageData>>
fetchBookPageData(pg) ==
    IF pg.status # "ok" THEN None
    ELSE IF pg.works = <<>> THEN None
    ELSE IF pg.rootQuery = "missing" THEN None
    ELSE Some([workId |-> pg.works[1],
               bookInfo |-> ExtractBookInfo(pg.book),
               initialReviews |-> InitialReviewsFrom(pg.reviews, 1),
               nextPageToken |-> IF pg.rootQuery = "getReviews"
                                 THEN TokenOrNull(pg.nextPageToken) ELSE Null,
               totalCount |-> IF pg.rootQuery = "getReviews" THEN pg.totalCount ELSE 0,
               apiKey |-> ExtractApiKey(pg.scripts, pg.configKey)])

----------------------------------------------------------------------------
(* Upstream collaborator B: the review query service  (route.ts 198-271)   *)
(*                                                                         *)
(* A result is status "throw", "httpError", "noConnection" or "ok", with   *)
(* the connection's edges (each node absent or <<[rating, text]>>),        *)
(* pageInfo.nextPageToken and totalCount.                                  *)
(***************************************************************************)

\* route.ts 207-222: the variables of the query; after is set only for a
\* truthy pageToken
QueryVariables(resourceId, pageToken, key) ==
    [resourceId |-> resourceId,
     limit |-> 30,
     after |-> IF Truthy(pageToken) THEN pageToken ELSE Undefined,
     apiKey |-> key]

\* route.ts 246-261: the loop over the edges, from edge i on
RECURSIVE GraphQLReviewsFrom(_, _)
GraphQLReviewsFrom(edges, i) ==
    IF i > Len(edges) THEN <<>>
    ELSE IF edges[i] # None /\ IsGoodRating(edges[i][1].rating)
         THEN <<Review(edges[i][1].rating, Content(edges[i][1].text))>>
              \o GraphQLReviewsFrom(edges, i + 1)
         ELSE GraphQLReviewsFrom(edges, i + 1)

\* fetchReviewsViaGraphQL: every failure, a rejected fetch included, is null
fetchReviewsViaGraphQL(gq) ==
    IF gq.status # "ok" THEN None
    ELSE Some([reviews |-> GraphQLReviewsFrom(gq.edges, 1),
               nextPageToken |-> TokenOrNull(gq.nextPageToken),
               totalCount |-> gq.totalCount])

----------------------------------------------------------------------------
(* The endpoint: GET  (route.ts 273-357) *)

NoPagination ==
    [currentPage |-> None, hasNext |-> FALSE, hasPrev |-> FALSE,
     nextPageToken |-> Undefined, workId |-> Undefined, apiKey |-> Undefined]

\* NextResponse.json({error}, {status})
ErrorResponse(status, message) ==
    [status |-> status, error |-> message, book |-> None, reviews |-> <<>>,
     totalFiltered |-> 0, totalCount |-> 0, pagination |-> NoPagination]

\* searchParams.get("url") is falsy: the parameter is absent or empty
UrlMissing(req) == req.url = None \/ req.url[1] = EmptyUrl

\* parseInt(searchParams.get("page") || "1", 10)  (route.ts 276)
PageOf(req) ==
    IF req.page = None \/ req.page[1] = <<>> THEN parseInt(<<"1">>)
    ELSE parseInt(req.page[1])

\* the branch taken with  page === 1 && !workId
IsBootstrapBoth(page, wid) == NumEquals(page, 1) /\ ~Truthy(wid)

\* route.ts 297: page === 1 || !workId
IsBootstrap(page, wid) == NumEquals(page, 1) \/ ~Truthy(wid)

\* route.ts 281-293: the 400 responses, <<>> when the request passes
ValidationError(req) ==
    IF UrlMissing(req)
    THEN Some(ErrorResponse(400, "Missing 'url' query parameter"))
    ELSE IF ~UrlIncludes(req.url[1], GoodreadsDomain)
    THEN Some(ErrorResponse(400, "URL must be a Goodreads URL"))
    ELSE None

\* route.ts 298-321: the response of Bootstrap mode to what the page fetch gave
BootstrapResponse(pg) ==
    IF pg.status = "throw"
    THEN ErrorResponse(500, "Failed to fetch and parse reviews")
    ELSE IF fetchBookPageData(pg) = None
    THEN ErrorResponse(500, "Failed to fetch book data")
    ELSE LET pageData == fetchBookPageData(pg)[1]
         IN  [status |-> 200, error |-> Undefined,
              book |-> Some(pageData.bookInfo),
              reviews |-> pageData.initialReviews,
              totalFiltered |-> Len(pageData.initialReviews),
              totalCount |-> pageData.totalCount,
              pagination |->
                  [currentPage |-> Some(1),
                   hasNext |-> Truthy(pageData.nextPageToken),
                   hasPrev |-> FALSE,
                   nextPageToken |-> pageData.nextPageToken,
                   workId |-> pageData.workId,
                   apiKey |-> pageData.apiKey]]

\* route.ts 324-349: the response of CursorFetch mode to what the query gave
CursorResponse(req, gq) ==
    IF fetchReviewsViaGraphQL(gq) = None
    THEN ErrorResponse(500, "Failed to fetch reviews")
    ELSE LET graphqlResult == fetchReviewsViaGraphQL(gq)[1]
         IN  [status |-> 200, error |-> Undefined,
              book |-> None,
              reviews |-> graphqlResult.reviews,
              totalFiltered |-> Len(graphqlResult.reviews),
              totalCount |-> graphqlResult.totalCount,
              pagination |->
                  [currentPage |-> JsonNumber(PageOf(req)),
                   hasNext |-> Truthy(graphqlResult.nextPageToken),
                   hasPrev |-> NumGreater(PageOf(req), 1),
                   nextPageToken |-> graphqlResult.nextPageToken,
                   workId |-> req.workId,
                   apiKey |-> Undefined]]

NoUpstream == [page |-> None, gql |-> None, call |-> None]

\* GET serving req, the book page answering from Pages and the query service
\* from Gqls
Serve(req, Pages, Gqls) ==
    /\ request' = Some(req)
    /\ IF ValidationError(req) # None
       THEN /\ response' = ValidationError(req)
            /\ contacted' = {}
            /\ upstream' = NoUpstream
       ELSE IF IsBootstrap(PageOf(req), req.workId)
       THEN \E pg \in Pages :
                /\ response' = Some(BootstrapResponse(pg))
                /\ contacted' = {"page"}
                /\ upstream' = [page |-> Some(pg), gql |-> None, call |-> None]
       ELSE \E gq \in Gqls :
                /\ response' = Some(CursorResponse(req, gq))
                /\ contacted' = {"query"}
                /\ upstream' =
                       [page |-> None, gql |-> Some(gq),
                        call |-> Some(QueryVariables(req.workId,
                                          TokenOrNull(req.pageToken),
                                          OrElse(req.apiKey, FALLBACK_API_KEY)))]

----------------------------------------------------------------------------
(* What the upstream collaborators may return *)

Ratings == 3..MaxRating
OptTexts == {None} \cup {Some(t) : t \in Texts}
RawReviews == {None} \cup {Some([rating |-> r, text |-> t]) : r \in Ratings, t \in OptTexts}

PlainReview == Some([rating |-> 5, text |-> Some(<<"a">>)])

\* no record, one record, or two records of which one is PlainReview
ReviewLists ==
    {<<>>} \cup {<<r>> : r \in RawReviews}
           \cup {<<r, PlainReview>> : r \in RawReviews}
           \cup {<<PlainReview, r>> : r \in RawReviews}

RawTokens == {Undefined, Null, "", "t1", "t2"}

ScriptBodies == SeqsUpTo(ScriptTokens, MaxScriptLen)
ScriptLists ==
    {<<>>} \cup {<<a>> : a \in ScriptBodies} \cup {<<a, b>> : a, b \in ScriptBodies}
ConfigKeys == {Undefined, "", "da2-cfg"}

WorkA == "kca://work/A"
WorkB == "kca://work/B"

BasePage ==
    [status |-> "ok",
     works |-> <<WorkA>>,
     book |-> Some([title |-> "Title", imageUrl |-> "cover", author |-> "Author"]),
     reviews |-> <<PlainReview>>,
     rootQuery |-> "getReviews",
     nextPageToken |-> "t1",
     totalCount |-> 30,
     scripts |-> <<<<"x">>, <<"da2-a">>>>,
     configKey |-> Undefined]

FailingPages ==
    {[BasePage EXCEPT !.status = st] :
        st \in {"throw", "httpError", "noNextData", "badJson", "noApollo"}}
    \cup {[BasePage EXCEPT !.works = <<>>], [BasePage EXCEPT !.rootQuery = "missing"]}

TokenPages ==
    {[BasePage EXCEPT !.nextPageToken = t] : t \in RawTokens}
    \cup {[BasePage EXCEPT !.rootQuery = "noGetReviews"]}

BookPages ==
    {[BasePage EXCEPT !.book = b, !.works = w] :
        b \in {None, Some([title |-> Undefined, imageUrl |-> Undefined, author |-> Undefined])},
        w \in {<<WorkA>>, <<WorkB, WorkA>>}}

ReviewPages == {[BasePage EXCEPT !.reviews = rs] : rs \in ReviewLists}

CredentialPages ==
    {[BasePage EXCEPT !.scripts = sc, !.configKey = k] : sc \in ScriptLists, k \in ConfigKeys}

CoarsePages == FailingPages \cup TokenPages \cup BookPages

BaseGql ==
    [status |-> "ok", edges |-> <<PlainReview>>, nextPageToken |-> "t2", totalCount |-> 30]

FailingGqls ==
    {[BaseGql EXCEPT !.status = st] : st \in {"throw", "httpError", "noConnection"}}

TokenGqls == {[BaseGql EXCEPT !.nextPageToken = t] : t \in RawTokens}

ReviewGqls == {[BaseGql EXCEPT !.edges = rs] : rs \in ReviewLists}

CoarseGqls == FailingGqls \cup TokenGqls

----------------------------------------------------------------------------
(* Requests sent to the endpoint directly *)

PageChars == {"-", "0", "1", "2", "x"}
PageParams == {None} \cup {Some(p) : p \in SeqsUpTo(PageChars, MaxPageLen)}

Query(url, page, pageToken, wid, key) ==
    [url |-> url, page |-> page, pageToken |-> pageToken, workId |-> wid, apiKey |-> key]

ApiRequests ==
    {Query(u, p, t, w, k) :
        u \in {None, Some(EmptyUrl), Some(GoodUrl), Some(SpoofUrl), Some(OtherUrl)},
        p \in PageParams,
        t \in {Null, "t1"},
        w \in {Null, "", WorkA},
        k \in {Null, "da2-c"}}

\* a first-page and a second-page request of one session
ProbeRequests ==
    {Query(Some(GoodUrl), Some(<<"1">>), Null, Null, Null),
     Query(Some(GoodUrl), Some(<<"2">>), "t1", WorkA, "da2-a")}

----------------------------------------------------------------------------
(* The initial state: no request served, Home() just mounted  (page.tsx 55-63) *)

Snapshot == [data |-> data, bookInfo |-> bookInfo, workId |-> workId,
             apiKey |-> apiKey, pageTokens |-> pageTokens]

ClearedSnapshot == [data |-> None, bookInfo |-> None, workId |-> Null,
                    apiKey |-> Null, pageTokens |-> <<Null>>]

Unfetched == "<unfetched>"

Init ==
    /\ request = None
    /\ upstream = NoUpstream
    /\ contacted = {}
    /\ response = None
    /\ loading = FALSE
    /\ error = Null
    /\ data = None
    /\ currentUrl = <<>>
    /\ bookInfo = None
    /\ workId = Null
    /\ apiKey = Null
    /\ pageTokens = <<Null>>
    /\ pending = None
    /\ origin = "none"
    /\ outcome = "none"
    /\ pre = ClearedSnapshot
    /\ lastNext = [p \in 1..MaxPage |-> Unfetched]
    /\ sessionFailed = FALSE

----------------------------------------------------------------------------
(* The endpoint called directly, once *)

\* any request, the collaborators failing or returning one ordinary batch
DirectGET ==
    /\ request = None
    /\ \E req \in ApiRequests : Serve(req, CoarsePages, CoarseGqls)
    /\ UNCHANGED <<clientVars, historyVars>>

\* a first-page or second-page request, the collaborators returning any
\* review records and any credentials
ProbeGET ==
    /\ request = None
    /\ \E req \in ProbeRequests : Serve(req, ReviewPages \cup CredentialPages, ReviewGqls)
    /\ UNCHANGED <<clientVars, historyVars>>

NextApi == DirectGET \/ ProbeGET

SpecApi == Init /\ [][NextApi]_vars

----------------------------------------------------------------------------
(* The page: Home()  (page.tsx 54-159) *)

\* pageTokens is a JavaScript array; index k of it is position k + 1 here
At(tokens, k) == IF k + 1 \in DOMAIN tokens THEN tokens[k + 1] ELSE Undefined

\* newTokens[page] = token, dropping what follows it
StoreTokenTruncating(tokens, page, token) ==
    IF page + 1 \in DOMAIN tokens
    THEN Append(SubSeq(tokens, 1, page), token)
    ELSE tokens \o [i \in 1..(page - Len(tokens)) |-> Undefined] \o <<token>>

\* page.tsx 113-117: newTokens = [...prev]; newTokens[page] = token
StoreToken(tokens, page, token) ==
    IF page + 1 \in DOMAIN tokens
    THEN [tokens EXCEPT ![page + 1] = token]
    ELSE tokens \o [i \in 1..(page - Len(tokens)) |-> Undefined] \o <<token>>

\* a query parameter is appended only when its value is truthy, and
\* searchParams.get answers null for one that was not  (page.tsx 78-87)
ParamOf(value) == IF Truthy(value) THEN value ELSE Null

BuildQuery(call) ==
    Query(Some(call.bookUrl), Some(numberToString(call.page)),
          ParamOf(call.pageToken), ParamOf(call.workId), ParamOf(call.apiKey))

\* fetchReviews up to its await  (page.tsx 65-89)
fetchReviews(bookUrl, page, pageToken, existingWorkId, existingApiKey) ==
    IF IsBlank(bookUrl)
    THEN /\ outcome' = "none"
         /\ UNCHANGED <<loading, error, pending, serverVars>>
    ELSE /\ loading' = TRUE
         /\ error' = Null
         /\ pending' = Some([bookUrl |-> bookUrl, page |-> page, pageToken |-> pageToken,
                             workId |-> existingWorkId, apiKey |-> existingApiKey])
         /\ request' = Some(BuildQuery(pending'[1]))
         /\ response' = None
         /\ contacted' = {}
         /\ upstream' = NoUpstream
         /\ outcome' = "pending"

\* the catch branch with the rendered page dropped as well
onFailureClearing(message) ==
    /\ error' = message
    /\ loading' = FALSE
    /\ pending' = None
    /\ data' = None
    /\ outcome' = "failed"
    /\ sessionFailed' = TRUE
    /\ UNCHANGED <<bookInfo, workId, apiKey, pageTokens, currentUrl,
                   origin, pre, lastNext, serverVars>>

\* fetchReviews' catch and finally  (page.tsx 122-126)
onFailure(message) ==
    /\ error' = message
    /\ loading' = FALSE
    /\ pending' = None
    /\ outcome' = "failed"
    /\ sessionFailed' = TRUE
    /\ UNCHANGED <<data, bookInfo, workId, apiKey, pageTokens, currentUrl,
                   origin, pre, lastNext, serverVars>>

\* the success branch storing the token without the test for a token
onSuccessAlwaysStoring(call, result) ==
    /\ bookInfo' = IF result.book # None THEN result.book ELSE bookInfo
    /\ workId' = IF Truthy(result.pagination.workId)
                 THEN result.pagination.workId ELSE workId
    /\ apiKey' = IF Truthy(result.pagination.apiKey)
                 THEN result.pagination.apiKey ELSE apiKey
    /\ pageTokens' = StoreToken(pageTokens, call.page, result.pagination.nextPageToken)
    /\ data' = Some(result)
    /\ currentUrl' = call.bookUrl
    /\ loading' = FALSE
    /\ pending' = None
    /\ outcome' = "ok"
    /\ lastNext' = [lastNext EXCEPT ![call.page] = result.pagination.nextPageToken]
    /\ UNCHANGED <<error, origin, pre, sessionFailed, serverVars>>

\* fetchReviews after a 200  (page.tsx 96-121, 125)
onSuccess(call, result) ==
    /\ bookInfo' = IF result.book # None THEN result.book ELSE bookInfo
    /\ workId' = IF Truthy(result.pagination.workId)
                 THEN result.pagination.workId ELSE workId
    /\ apiKey' = IF Truthy(result.pagination.apiKey)
                 THEN result.pagination.apiKey ELSE apiKey
    /\ pageTokens' = IF Truthy(result.pagination.nextPageToken)
                     THEN StoreToken(pageTokens, call.page, result.pagination.nextPageToken)
                     ELSE pageTokens
    /\ data' = Some(result)
    /\ currentUrl' = call.bookUrl
    /\ loading' = FALSE
    /\ pending' = None
    /\ outcome' = "ok"
    /\ lastNext' = [lastNext EXCEPT ![call.page] = result.pagination.nextPageToken]
    /\ UNCHANGED <<error, origin, pre, sessionFailed, serverVars>>

\* the URL field is <input type="url" required>: a submitted URL is not blank
ClientUrls == {GoodUrl, OtherUrl}

\* page.tsx 129-137; the button is disabled while loading  (page.tsx 186)
handleSubmit(url) ==
    /\ ~loading
    /\ data' = None
    /\ bookInfo' = None
    /\ workId' = Null
    /\ apiKey' = Null
    /\ pageTokens' = <<Null>>
    /\ fetchReviews(url, 1, Undefined, Undefined, Undefined)
    /\ origin' = "submit"
    /\ pre' = Snapshot
    /\ lastNext' = [p \in 1..MaxPage |-> Unfetched]
    /\ sessionFailed' = FALSE
    /\ UNCHANGED currentUrl

\* page.tsx 139-145; Next is rendered with data and disabled unless hasNext
\* and not loading  (page.tsx 285)
goToNextPage ==
    /\ data # None
    /\ data[1].pagination.hasNext
    /\ ~loading
    /\ NumberOf(data[1].pagination.currentPage) + 1 <= MaxPage
    /\ fetchReviews(currentUrl, NumberOf(data[1].pagination.currentPage) + 1,
                    data[1].pagination.nextPageToken, workId, apiKey)
    /\ origin' = "next"
    /\ pre' = Snapshot
    /\ UNCHANGED <<data, bookInfo, workId, apiKey, pageTokens, currentUrl, lastNext,
                   sessionFailed>>

\* the cursor read one entry too far
PrevTokenSamePage(tokens, prevPage) == At(tokens, prevPage)

\* page.tsx 155: pageTokens[prevPage - 1]
PrevToken(tokens, prevPage) == At(tokens, prevPage - 1)

\* page.tsx 147-159; Previous is disabled unless hasPrev and not loading
\* (page.tsx 275)
goToPrevPage ==
    /\ data # None
    /\ data[1].pagination.hasPrev
    /\ ~loading
    /\ LET prevPage == NumberOf(data[1].pagination.currentPage) - 1
       IN  IF prevPage = 1
           THEN fetchReviews(currentUrl, 1, Undefined, Undefined, Undefined)
           ELSE fetchReviews(currentUrl, prevPage, PrevToken(pageTokens, prevPage),
                             workId, apiKey)
    /\ origin' = "prev"
    /\ pre' = Snapshot
    /\ UNCHANGED <<data, bookInfo, workId, apiKey, pageTokens, currentUrl, lastNext,
                   sessionFailed>>

\* what the collaborators return during a browsing session
SessionTokens == {Null, "t1", "t2"}

ClientPages ==
    {[BasePage EXCEPT !.nextPageToken = t, !.works = w] :
        t \in SessionTokens, w \in {<<WorkA>>, <<WorkB>>}}
    \cup {[BasePage EXCEPT !.status = "httpError"]}

ClientGqls ==
    {[BaseGql EXCEPT !.nextPageToken = t] : t \in SessionTokens}
    \cup {[BaseGql EXCEPT !.status = "httpError"]}

\* the endpoint serves the request the page is waiting for
ServerGET ==
    /\ loading
    /\ request # None
    /\ response = None
    /\ Serve(request[1], ClientPages, ClientGqls)
    /\ UNCHANGED <<clientVars, historyVars>>

\* page.tsx 89-94: the response arrives
ReceiveResponse ==
    /\ loading
    /\ response # None
    /\ IF response[1].status # 200
       THEN onFailure(OrElse(response[1].error, "Failed to fetch reviews"))
       ELSE onSuccess(pending[1], response[1])

\* page.tsx 89: fetch rejects, the request never served
fetchRejected ==
    /\ loading
    /\ response = None
    /\ onFailure("Failed to fetch")

Next ==
    \/ \E url \in ClientUrls : handleSubmit(url)
    \/ goToNextPage
    \/ goToPrevPage
    \/ ServerGET
    \/ ReceiveResponse
    \/ fetchRejected

Spec == Init /\ [][Next]_vars

----------------------------------------------------------------------------
(* Properties of the endpoint, checked of every request SpecApi serves *)

Served == request # None /\ response # None
Succeeded == Served /\ response[1].status = 200
PassedValidation == Served /\ response[1].status # 400

\* the raw records the contacted collaborator returned
UpstreamRecords ==
    IF upstream.page # None THEN upstream.page[1].reviews
    ELSE IF upstream.gql # None THEN upstream.gql[1].edges
    ELSE <<>>

\* the raw nextPageToken the contacted collaborator returned
UpstreamToken ==
    IF upstream.page # None
    THEN (IF upstream.page[1].rootQuery = "getReviews"
          THEN upstream.page[1].nextPageToken ELSE Undefined)
    ELSE IF upstream.gql # None THEN upstream.gql[1].nextPageToken
    ELSE Undefined

\* C1: every Review of a successful response has rating 4 or 5, whatever
\* records the page's embedded state or the query service held.
C1_RatingIs4Or5 ==
    Succeeded =>
        \A i \in DOMAIN response[1].reviews : response[1].reviews[i].rating \in {4, 5}

\* a "<" with a ">" somewhere after it
HasTag(content) ==
    \E i, j \in DOMAIN content : i < j /\ content[i] = "<" /\ content[j] = ">"

\* C2: the content of every Review of a successful response, of either fetch
\* path, holds no "<" that is followed by a later ">".
C2_NoTagInContent ==
    Succeeded =>
        \A i \in DOMAIN response[1].reviews : ~HasTag(response[1].reviews[i].content)

\* C2's case: the query service returned a text with an unbalanced tag,
\* "<>>", and the Review made of it holds what is left, ">"
C2_Witness ==
    /\ Succeeded
    /\ contacted = {"query"}
    /\ upstream.gql[1].edges = <<Some([rating |-> 4, text |-> Some(<<"<", ">", ">">>)])>>
    /\ Len(response[1].reviews) = 1
    /\ response[1].reviews[1].content = <<">">>

\* C3: a request without url is answered 400 "Missing 'url' query parameter",
\* a request whose url names another host than goodreads.com is answered 400
\* "URL must be a Goodreads URL", and in both cases no collaborator is
\* contacted.
C3_UrlValidation ==
    Served =>
        /\ UrlMissing(request[1]) =>
               /\ response[1].status = 400
               /\ response[1].error = "Missing 'url' query parameter"
               /\ contacted = {}
        /\ (~UrlMissing(request[1]) /\ ~HostIs(request[1].url[1], GoodreadsDomain)) =>
               /\ response[1].status = 400
               /\ response[1].error = "URL must be a Goodreads URL"
               /\ contacted = {}

\* C4: a request that passes validation with page = 1 is served by the page
\* fetch alone, whatever workId, apiKey and pageToken it carries, and a
\* successful response to it has currentPage 1, hasPrev false and a book.
C4_PageOneBootstraps ==
    (PassedValidation /\ NumEquals(PageOf(request[1]), 1)) =>
        /\ contacted = {"page"}
        /\ response[1].status = 200 =>
               /\ response[1].pagination.currentPage = Some(1)
               /\ response[1].pagination.hasPrev = FALSE
               /\ response[1].book # None

\* C4's case: page=1 sent with a workId, an apiKey and a pageToken, served
\* from the book page
C4_Witness ==
    /\ Succeeded
    /\ request[1].page = Some(<<"1">>)
    /\ request[1].workId = WorkA
    /\ request[1].apiKey = "da2-c"
    /\ request[1].pageToken = "t1"
    /\ contacted = {"page"}
    /\ response[1].book # None

\* C5: in a successful response of either mode, hasNext is true exactly when
\* nextPageToken is not null, and a nextPageToken that is not null is the one
\* the request's fetch obtained.
C5_HasNextIffToken ==
    Succeeded =>
        /\ response[1].pagination.hasNext <=> (response[1].pagination.nextPageToken # Null)
        /\ response[1].pagination.nextPageToken # Null =>
               response[1].pagination.nextPageToken = UpstreamToken

\* C5's case: the query service returned the empty string as cursor, and the
\* response has no next page and a null token
C5_Witness ==
    /\ Succeeded
    /\ contacted = {"query"}
    /\ upstream.gql[1].nextPageToken = ""
    /\ response[1].pagination.hasNext = FALSE
    /\ response[1].pagination.nextPageToken = Null

\* key is the first match of the credential pattern in the scripts: the first
\* matching token of the first script that has one
IsFirstScriptMatch(scripts, key) ==
    \E i \in DOMAIN scripts : \E j \in DOMAIN scripts[i] :
        /\ scripts[i][j] = key
        /\ key \in KeyTokens
        /\ \A j2 \in 1..(j - 1) : scripts[i][j2] \notin KeyTokens
        /\ \A i2 \in 1..(i - 1) : \A j2 \in DOMAIN scripts[i2] :
               scripts[i2][j2] \notin KeyTokens

SomeScriptMatches(scripts) ==
    \E i \in DOMAIN scripts : \E j \in DOMAIN scripts[i] : scripts[i][j] \in KeyTokens

Bootstrapped == Succeeded /\ upstream.page # None

\* C8 as stated: the apiKey of a successful bootstrap is the first script
\* match whenever one exists, the runtime configuration's credential only when
\* no script matches, the fallback only when both are absent.
C8_ScriptMatchFirst ==
    Bootstrapped =>
        LET scripts == upstream.page[1].scripts
            config  == upstream.page[1].configKey
            key     == response[1].pagination.apiKey
        IN  /\ SomeScriptMatches(scripts) => IsFirstScriptMatch(scripts, key)
            /\ (~SomeScriptMatches(scripts) /\ Truthy(config)) => key = config
            /\ (~SomeScriptMatches(scripts) /\ ~Truthy(config)) => key = FALLBACK_API_KEY

\* C8 amended: the apiKey of a successful bootstrap is the runtime
\* configuration's credential whenever that field is set and not empty; else
\* the first script match when one exists; the fallback only when both are
\* absent.
C8_ConfigFirst ==
    Bootstrapped =>
        LET scripts == upstream.page[1].scripts
            config  == upstream.page[1].configKey
            key     == response[1].pagination.apiKey
        IN  /\ Truthy(config) => key = config
            /\ (~Truthy(config) /\ SomeScriptMatches(scripts)) =>
                   IsFirstScriptMatch(scripts, key)
            /\ (~Truthy(config) /\ ~SomeScriptMatches(scripts)) => key = FALLBACK_API_KEY

\* C8's case: a script matches and the runtime configuration has a
\* credential too; the configuration's is returned
C8_Witness ==
    /\ Bootstrapped
    /\ upstream.page[1].scripts = <<<<"x", "da2-b">>, <<"da2-a">>>>
    /\ upstream.page[1].configKey = "da2-cfg"
    /\ response[1].pagination.apiKey = "da2-cfg"

\* C9: among the requests that pass validation, whatever page they carry, the
\* query service is contacted exactly for those with page > 1 and a workId that
\* is not empty, and those are not served by a page fetch.
C9_ModeSelection ==
    PassedValidation =>
        /\ ("query" \in contacted) <=>
               (NumGreater(PageOf(request[1]), 1) /\ Truthy(request[1].workId))
        /\ (NumGreater(PageOf(request[1]), 1) /\ Truthy(request[1].workId)) =>
               "page" \notin contacted

----------------------------------------------------------------------------
(* Properties of a browsing session, checked of every behaviour of Spec *)

InFlight == loading /\ request # None

\* C6: every request the page issues for a page P > 1 carries the session's
\* workId and, as pageToken, the nextPageToken that the last successful fetch
\* of page P - 1 returned; forward, backward and after failed requests.
C6_PaginationContinuity ==
    (InFlight /\ NumGreater(PageOf(request[1]), 1)) =>
        LET P == PageOf(request[1]).val
        IN  /\ Truthy(workId)
            /\ request[1].workId = workId
            /\ Truthy(lastNext[P - 1])
            /\ lastNext[P - 1] # Unfetched
            /\ request[1].pageToken = lastNext[P - 1]

\* C6's case: a backward step from page 3 to page 2 in a session in which a
\* request has failed, page 1 having been fetched last with cursor "t2"
C6_Witness ==
    /\ InFlight
    /\ origin = "prev"
    /\ sessionFailed
    /\ request[1].page = Some(<<"2">>)
    /\ request[1].pageToken = "t2"
    /\ lastNext[1] = "t2"
    /\ lastNext[2] = "t1"
    /\ request[1].workId = WorkB

\* C7 as stated: after a request that failed, whichever action started it,
\* data, bookInfo, workId, apiKey and the page-token cache are what they were
\* when the action was taken.
C7_FailureKeepsState == outcome = "failed" => Snapshot = pre

\* C7 amended: after a failed request that Next or Previous started, data,
\* bookInfo, workId, apiKey and the page-token cache are what they were when the
\* action was taken; Submit clears the five before its request is issued, and
\* after a failed request that Submit started they are in that cleared state;
\* the failure itself sets only the error message and the loading flag.
C7_FailureKeepsStateOfNavigation ==
    outcome = "failed" =>
        /\ origin \in {"next", "prev"} => Snapshot = pre
        /\ origin = "submit" => Snapshot = ClearedSnapshot
        /\ error # Null
        /\ loading = FALSE

\* C7's case: Next failed on a rendered page 2 whose cache holds two cursors
C7_Witness ==
    /\ outcome = "failed"
    /\ origin = "next"
    /\ data # None
    /\ data[1].pagination.currentPage = Some(2)
    /\ Len(pageTokens) = 3
    /\ Snapshot = pre

\* the step in which Submit starts a new session
IsSubmitStep == ~loading /\ loading' /\ origin' = "submit"

\* C10 as stated: within a session no step changes or removes a recorded entry
\* of the page-token cache.
C10_AppendOnly ==
    [][~IsSubmitStep =>
          \A k \in DOMAIN pageTokens :
              k \in DOMAIN pageTokens' /\ pageTokens'[k] = pageTokens[k]]_vars

\* C10 amended: within a session no step removes an entry of the page-token
\* cache, and the entry of page P changes only when a fetch of page P succeeds
\* with a nextPageToken that is not null, and then it becomes that token.
C10_EntriesOnlyRefreshed ==
    [][~IsSubmitStep =>
          \A k \in DOMAIN pageTokens :
              /\ k \in DOMAIN pageTokens'
              /\ pageTokens'[k] # pageTokens[k] =>
                     /\ loading /\ ~loading' /\ outcome' = "ok"
                     /\ pending[1].page = k - 1
                     /\ Truthy(response[1].pagination.nextPageToken)
                     /\ pageTokens'[k] = response[1].pagination.nextPageToken]_vars

\* C10's case: page 1 was fetched again by Previous and its entry, "t1" when
\* Previous was pressed, is now "t2", the entry of page 2 still there
C10_Witness ==
    /\ outcome = "ok"
    /\ origin = "prev"
    /\ Len(pageTokens) = 3
    /\ Len(pre.pageTokens) = 3
    /\ At(pre.pageTokens, 1) = "t1"
    /\ At(pageTokens, 1) = "t2"
    /\ At(pageTokens, 2) = At(pre.pageTokens, 2)

\* the page and the nextPageToken of the fetch that has just succeeded
FetchedPage == NumberOf(data[1].pagination.currentPage)
FetchedToken == data[1].pagination.nextPageToken

\* the page-token cache as the action that started the request left it: reset
\* by Submit, untouched by Next and Previous
CacheAtRequest == IF origin = "submit" THEN <<Null>> ELSE pre.pageTokens

\* C11 as stated: after a successful fetch of page P the cache entry of page P
\* equals the nextPageToken that fetch returned, a cursor or none (null, or no
\* entry at all).
C11_EntryIsFetchedToken ==
    outcome = "ok" =>
        IF Truthy(FetchedToken)
        THEN At(pageTokens, FetchedPage) = FetchedToken
        ELSE At(pageTokens, FetchedPage) \in {Null, Undefined}

\* C11 amended: after a successful fetch of page P that returned a
\* nextPageToken that is not null, the cache entry of page P equals that token;
\* a successful fetch that returned null leaves the whole cache as it was when
\* the request was started, so the entry of page P is then absent or still the
\* cursor an earlier fetch of page P returned.
C11_EntryIsFetchedCursor ==
    outcome = "ok" =>
        /\ Truthy(FetchedToken) => At(pageTokens, FetchedPage) = FetchedToken
        /\ ~Truthy(FetchedToken) => pageTokens = CacheAtRequest

\* C11's case: Previous fetched page 1 again, the repeated bootstrap returned
\* no cursor, and the entry of page 1 is still the earlier cursor "t1"
C11_Witness ==
    /\ outcome = "ok"
    /\ origin = "prev"
    /\ FetchedPage = 1
    /\ FetchedToken = Null
    /\ At(pre.pageTokens, 1) = "t1"
    /\ At(pageTokens, 1) = "t1"

====
